---- MODULE Spec2Model ----
(***************************************************************************)
(* Model of the SFTP client of src/sftp/sftp-client.c: the connection      *)
(* record, the single-shot operations that await a status, the directory   *)
(* listing, and the two pipelined transfer loops (do_download, do_upload). *)
(* The client is one synchronous thread; the server answers the requests   *)
(* it has received in any order; the interrupt flag is set asynchronously. *)
(***************************************************************************)
EXTENDS Integers, Sequences, FiniteSets, TLC

\* ---------------------------------------------------------------- bounds
MaxOps == 2           \* operations started on one connection
MaxRequests == 2      \* largest conn.num_requests drawn in Init
MaxFaults == 1        \* server misbehaviours and local I/O failures injected
MaxStartSent == 2     \* an operation starts only while nsent <= MaxStartSent
ShortFloor == 256     \* the server halves a DATA reply only above this length
MaxNameReplies == 2   \* non-empty NAME replies the server sends per readdir
MaxExts == 1          \* extension pairs in the VERSION reply
MaxLiveIds == 5       \* ids the never-ending download loop draws from
LiveRequests == 1     \* conn.num_requests of the never-ending download loop

\* ------------------------------------------------------ program constants
SFTP_EXT_POSIX_RENAME == 1
SFTP_EXT_STATVFS == 2
SFTP_EXT_FSTATVFS == 4
V0_MAX_BUFLEN == 20480            \* the literal of line 368
MIN_READ_SIZE == 512
SSH2_FX_OK == 0
SSH2_FX_EOF == 1
SSH2_FX_FAILURE == 4
SSH2_FX_OP_UNSUPPORTED == 8
STATUS_NO_REPLY == 255

\* ----------------------------------------------------------- input sets
BufLens == {256, 1024}            \* conn.transfer_buflen
RemoteSizes == {0, 700}           \* length of the remote file of a download
UploadSizes == {0, 700, 1000}     \* length of the local file of an upload
\* A connection with a large buffer also uploads a file larger than it.
UploadSizesFor(tb) == UploadSizes \cup {n \in {25000} : tb > 1024}
Errnos == {28}                    \* ENOSPC
FileNames == {<<"a">>, <<".", ".", "/", "x">>}
StatusOps == {"REMOVE", "MKDIR"}
InitBufLens == {16384, 32768}     \* transfer_buflen passed to do_init
ServerVersions == {0, 3}          \* version of the VERSION reply
ExtPairs ==                       \* extension pairs of the VERSION reply
    {[name |-> "posix-rename@openssh.com", value |-> "1"],
     [name |-> "statvfs@openssh.com", value |-> "2"],
     [name |-> "statvfs@openssh.com", value |-> "1"],
     [name |-> "fstatvfs@openssh.com", value |-> "2"],
     [name |-> "other@example.com", value |-> "1"]}
NoHandle == 0                     \* get_handle returned NULL
BadId == 0                        \* an id no request of the connection carries

VARIABLES
    conn,         \* struct sftp_conn
    interrupted,  \* volatile sig_atomic_t interrupted
    pc,           \* position of the client thread
    op,           \* operation running (or the last one that returned)
    nops,         \* operations started so far
    ret,          \* return value of the last operation that returned
    srvq,         \* requests the server has received and not answered
    nsent,        \* id-carrying requests written to the outbound stream
    lastReq,      \* the last request written
    faults,       \* misbehaviours injected so far
    hcount,       \* handles the server has issued
    closes,       \* closes[h]: CLOSE requests sent for handle h
    \* locals shared by the operations
    handle, status, offset, id, pflag,
    \* do_download
    buflen, num_req, max_req, size, requests, read_error, write_error,
    write_errno, rsize, lfile, firstErrno, fchmodFailed,
    \* do_upload
    startid, ackid, acks, len, uleft, nwrites, badAck,
    \* do_lsreaddir
    dir, expected_id, nname,
    lastNames,    \* the entries of the NAME reply being decoded
    allNames,     \* the entries without '/' of all NAME replies of the
                  \* readdir, in the order of arrival
    \* observers
    args,         \* the transfer_buflen and num_requests passed to do_init
    intr_seen,    \* in the loop: the poll of line 1005 has found the flag set
    viol,         \* what was wrong with the reply received last
    version_pairs \* the extension pairs of the VERSION reply do_init parsed

vars == <<version_pairs, conn, interrupted, pc, op, nops, ret, srvq, nsent, lastReq, faults,
          hcount, closes, handle, status, offset, id, pflag,
          buflen, num_req, max_req, size, requests, read_error, write_error,
          write_errno, rsize, lfile, firstErrno, fchmodFailed,
          startid, ackid, acks, len, uleft, nwrites, badAck,
          dir, expected_id, nname, lastNames, allNames, args, intr_seen,
          viol>>

dlvars == <<buflen, num_req, max_req, size, requests, read_error, write_error,
            write_errno, rsize, lfile, firstErrno, fchmodFailed,
            intr_seen>>
ulvars == <<startid, ackid, acks, len, uleft, nwrites, badAck>>
rdvars == <<dir, expected_id, nname, lastNames, allNames>>

\* --------------------------------------------------------------- helpers
HasBit(x, b) == (x \div b) % 2 = 1
SetBit(x, b) == IF HasBit(x, b) THEN x ELSE x + b
Min(a, b) == IF a < b THEN a ELSE b
Max(a, b) == IF a > b THEN a ELSE b
Half(n) == (n + 1) \div 2

\* Remove the i-th element of a queue (TAILQ_REMOVE).
RemoveAt(q, i) == [j \in 1..(Len(q) - 1) |-> IF j < i THEN q[j] ELSE q[j + 1]]

\* A scan that stops at the head of the queue when no entry matches.
FindIdOrHead(q, rid) ==
    IF \E i \in 1..Len(q) : q[i].id = rid
    THEN CHOOSE i \in 1..Len(q) :
             /\ q[i].id = rid
             /\ \A j \in 1..(i - 1) : q[j].id # rid
    ELSE IF q = <<>> THEN 0 ELSE 1

\* Linear scan of a queue for an id: index of the first match, 0 if none.
FindId(q, rid) ==
    IF \E i \in 1..Len(q) : q[i].id = rid
    THEN CHOOSE i \in 1..Len(q) :
             /\ q[i].id = rid
             /\ \A j \in 1..(i - 1) : q[j].id # rid
    ELSE 0

\* A request as written to the outbound stream by send_msg.
Request(t, rid, off, ln, h) ==
    [seq |-> nsent + 1, id |-> rid, type |-> t, offset |-> off, len |-> ln,
     handle |-> h]

\* send_msg of an id-carrying request.
SendMsg(m) ==
    /\ srvq' = srvq \cup {m}
    /\ nsent' = nsent + 1
    /\ lastReq' = m
    /\ closes' = IF m.type = "CLOSE"
                 THEN [closes EXCEPT ![m.handle] = @ + 1]
                 ELSE closes

NoSend == UNCHANGED <<srvq, nsent, lastReq, closes>>

\* get_status: 255 when the receive fails, the id differs or the reply is
\* not a STATUS; the status code otherwise.
get_statusAnyId(recv_ok, rid, rtype, code, expected) ==
    IF ~recv_ok THEN STATUS_NO_REPLY
    ELSE IF rtype # "STATUS" THEN STATUS_NO_REPLY
    ELSE code

get_status(recv_ok, rid, rtype, code, expected) ==
    IF ~recv_ok THEN STATUS_NO_REPLY
    ELSE IF rid # expected THEN STATUS_NO_REPLY
    ELSE IF rtype # "STATUS" THEN STATUS_NO_REPLY
    ELSE code

\* get_handle: "fatal" on an id mismatch or an unexpected type, NULL on a
\* STATUS reply, the handle otherwise.
get_handle(rid, rtype, h, expected) ==
    IF rid # expected THEN "fatal"
    ELSE IF rtype = "STATUS" THEN "null"
    ELSE IF rtype # "HANDLE" THEN "fatal"
    ELSE "handle"

\* What is wrong with a reply to a single request, in the order the
\* receiving functions test it: the receive failed, the id is not the one
\* awaited, the type is none of the types the function accepts.
ReplyViolation(recv_ok, rid, rtype, expected, accepted) ==
    IF ~recv_ok THEN "recv_fail"
    ELSE IF rid # expected THEN "unknown_id"
    ELSE IF rtype \notin accepted THEN "bad_type"
    ELSE "none"

\* What get_status can return at a moment when the server holds srvq: the
\* server answers any request it holds with a STATUS, or the receive fails,
\* or the reply carries an id of no request, or it is not a STATUS.
\* taken: the requests the reply answers; fault: 1 for a misbehaviour.
StatusOutcomes(expected) ==
    {[st |-> get_status(TRUE, r.id, "STATUS", c, expected),
      taken |-> {r}, fault |-> 0,
      kind |-> ReplyViolation(TRUE, r.id, "STATUS", expected, {"STATUS"})] :
        r \in srvq, c \in {SSH2_FX_OK, SSH2_FX_FAILURE}}
    \cup {[st |-> get_status(FALSE, BadId, "STATUS", SSH2_FX_OK, expected),
           taken |-> {}, fault |-> 1,
           kind |-> ReplyViolation(FALSE, BadId, "STATUS", expected,
                                   {"STATUS"})]}
    \cup {[st |-> get_status(TRUE, BadId, "STATUS", SSH2_FX_OK, expected),
           taken |-> {}, fault |-> 1,
           kind |-> ReplyViolation(TRUE, BadId, "STATUS", expected,
                                   {"STATUS"})]}
    \cup {[st |-> get_status(TRUE, r.id, "HANDLE", SSH2_FX_OK, expected),
           taken |-> {r}, fault |-> 1,
           kind |-> ReplyViolation(TRUE, r.id, "HANDLE", expected,
                                   {"STATUS"})] : r \in srvq}

\* ------------------------------------------------------------------ Init
Init ==
    /\ conn \in [transfer_buflen : BufLens, num_requests : 1..MaxRequests,
                 version : {3}, msg_id : {1}, exts : {0}]
    /\ interrupted = FALSE
    /\ pc = "idle"
    /\ op = "none"
    /\ nops = 0
    /\ ret = 0
    /\ srvq = {}
    /\ nsent = 0
    /\ lastReq = Request("NONE", 0, 0, 0, NoHandle)
    /\ faults = 0
    /\ hcount = 0
    /\ closes = [h \in 0..MaxOps |-> 0]
    /\ handle = NoHandle /\ status = 0 /\ offset = 0 /\ id = 0
    /\ pflag = FALSE
    /\ buflen = 0 /\ num_req = 0 /\ max_req = 0 /\ size = 0
    /\ requests = <<>> /\ read_error = FALSE /\ write_error = FALSE
    /\ write_errno = 0 /\ rsize = 0 /\ lfile = {} /\ firstErrno = 0
    /\ fchmodFailed = FALSE
    /\ startid = 0 /\ ackid = 0 /\ acks = <<>> /\ len = 0 /\ uleft = 0
    /\ nwrites = 0 /\ badAck = FALSE
    /\ dir = <<>> /\ expected_id = 0 /\ nname = 0 /\ lastNames = <<>>
    /\ allNames = <<>>
    /\ args = [transfer_buflen |-> conn.transfer_buflen,
               num_requests |-> conn.num_requests]
    /\ intr_seen = FALSE
    /\ viol = "none"
    /\ version_pairs = <<>>

\* The SIGINT handler sets the flag at any moment. "ret" is the instant of
\* a return: a flag set there is a flag set once the operation has returned.
Interrupt ==
    /\ ~interrupted
    /\ pc \notin {"fatal", "ret"}
    /\ interrupted' = TRUE
    /\ UNCHANGED <<args, version_pairs, viol,
                   conn, pc, op, nops, ret, srvq, nsent, lastReq, faults,
                   hcount, closes, handle, status, offset, id, pflag,
                   dlvars, ulvars, rdvars>>

\* The read length a download ended with is kept for the next transfer.
ReturnWritesBuflenBack ==
    /\ pc = "ret"
    /\ pc' = "idle"
    /\ conn' = [conn EXCEPT !.transfer_buflen =
                               IF buflen > 0 THEN buflen ELSE @]
    /\ handle' = NoHandle /\ status' = 0 /\ offset' = 0 /\ id' = 0
    /\ pflag' = FALSE
    /\ buflen' = 0 /\ num_req' = 0 /\ max_req' = 0 /\ size' = 0
    /\ requests' = <<>> /\ read_error' = FALSE /\ write_error' = FALSE
    /\ write_errno' = 0 /\ rsize' = 0 /\ lfile' = {} /\ firstErrno' = 0
    /\ fchmodFailed' = FALSE
    /\ startid' = 0 /\ ackid' = 0 /\ acks' = <<>> /\ len' = 0 /\ uleft' = 0
    /\ nwrites' = 0 /\ badAck' = FALSE
    /\ dir' = <<>> /\ expected_id' = 0 /\ nname' = 0
    /\ op' = "none" /\ ret' = 0
    /\ intr_seen' = FALSE /\ lastNames' = <<>> /\ viol' = "none"
    /\ allNames' = <<>>
    /\ version_pairs' = <<>>
    /\ UNCHANGED <<args,
                   interrupted, nops, srvq, nsent, lastReq,
                   faults, hcount, closes>>

\* The return of an operation: its locals die, the connection stays.
Return ==
    /\ pc = "ret"
    /\ pc' = "idle"
    /\ handle' = NoHandle /\ status' = 0 /\ offset' = 0 /\ id' = 0
    /\ pflag' = FALSE
    /\ buflen' = 0 /\ num_req' = 0 /\ max_req' = 0 /\ size' = 0
    /\ requests' = <<>> /\ read_error' = FALSE /\ write_error' = FALSE
    /\ write_errno' = 0 /\ rsize' = 0 /\ lfile' = {} /\ firstErrno' = 0
    /\ fchmodFailed' = FALSE
    /\ startid' = 0 /\ ackid' = 0 /\ acks' = <<>> /\ len' = 0 /\ uleft' = 0
    /\ nwrites' = 0 /\ badAck' = FALSE
    /\ dir' = <<>> /\ expected_id' = 0 /\ nname' = 0
    /\ op' = "none" /\ ret' = 0
    /\ intr_seen' = FALSE /\ lastNames' = <<>> /\ viol' = "none"
    /\ allNames' = <<>>
    /\ version_pairs' = <<>>
    /\ UNCHANGED <<args,
                   conn, interrupted, nops, srvq, nsent, lastReq,
                   faults, hcount, closes>>

\* ------------------------------------------- single-shot status operations
\* do_rm, do_mkdir: id = conn->msg_id++, send, get_status.
StartStatusOp ==
    /\ pc = "idle" /\ nops < MaxOps /\ nsent <= MaxStartSent
    /\ \E t \in StatusOps :
        /\ op' = t
        /\ SendMsg(Request(t, conn.msg_id, 0, 0, NoHandle))
    /\ id' = conn.msg_id
    /\ conn' = [conn EXCEPT !.msg_id = @ + 1]
    /\ nops' = nops + 1
    /\ pc' = "st_wait"
    /\ UNCHANGED <<args, version_pairs, viol,
                   interrupted, ret, faults, hcount, handle, status, offset,
                   pflag, dlvars, ulvars, rdvars>>

StatusOpReply ==
    /\ pc = "st_wait"
    /\ \E o \in StatusOutcomes(id) :
        /\ faults + o.fault <= MaxFaults
        /\ viol' = o.kind
        /\ faults' = faults + o.fault
        /\ srvq' = srvq \ o.taken
        /\ ret' = o.st
    /\ pc' = "ret"
    /\ UNCHANGED <<args, version_pairs,
                   conn, interrupted, op, nops, nsent, lastReq,
                   hcount, closes, handle, status, offset, id, pflag,
                   dlvars, ulvars, rdvars>>

\* do_rename: the opcode depends on the posix-rename extension bit.
RenameOpcode(exts) ==
    IF HasBit(exts, SFTP_EXT_POSIX_RENAME) THEN "EXTENDED" ELSE "RENAME"

\* do_rename: id = conn->msg_id++, send, get_status.
StartRename ==
    /\ pc = "idle" /\ nops < MaxOps /\ nsent <= MaxStartSent
    /\ op' = "rename"
    /\ SendMsg(Request(RenameOpcode(conn.exts), conn.msg_id, 0, 0, NoHandle))
    /\ id' = conn.msg_id
    /\ conn' = [conn EXCEPT !.msg_id = @ + 1]
    /\ nops' = nops + 1
    /\ pc' = "st_wait"
    /\ UNCHANGED <<args, version_pairs, viol,
                   interrupted, ret, faults, hcount, handle, status, offset,
                   pflag, dlvars, ulvars, rdvars>>

\* do_symlink: refused before anything is sent when the server's version is
\* below 3, otherwise id = conn->msg_id++, send, get_status.
StartSymlink ==
    /\ pc = "idle" /\ nops < MaxOps /\ nsent <= MaxStartSent
    /\ op' = "symlink"
    /\ nops' = nops + 1
    /\ IF conn.version < 3
       THEN /\ ret' = SSH2_FX_OP_UNSUPPORTED
            /\ pc' = "ret"
            /\ NoSend
            /\ UNCHANGED <<conn, id>>
       ELSE /\ SendMsg(Request("SYMLINK", conn.msg_id, 0, 0, NoHandle))
            /\ id' = conn.msg_id
            /\ conn' = [conn EXCEPT !.msg_id = @ + 1]
            /\ pc' = "st_wait"
            /\ UNCHANGED ret
    /\ UNCHANGED <<args, version_pairs, viol,
                   interrupted, faults, hcount, handle, status, offset,
                   pflag, dlvars, ulvars, rdvars>>

\* do_realpath up to the wait for the reply.
StartRealpath ==
    /\ pc = "idle" /\ nops < MaxOps /\ nsent <= MaxStartSent
    /\ op' = "realpath"
    /\ SendMsg(Request("REALPATH", conn.msg_id, 0, 0, NoHandle))
    /\ id' = conn.msg_id
    /\ conn' = [conn EXCEPT !.msg_id = @ + 1]
    /\ nops' = nops + 1
    /\ pc' = "rp_wait"
    /\ UNCHANGED <<args, version_pairs, viol,
                   interrupted, ret, faults, hcount, handle, status, offset,
                   pflag, dlvars, ulvars, rdvars>>

\* The replies a server can give to the REALPATH request r: a NAME of 0, 1
\* or 2 entries, a STATUS, and the faulty ones (a reply of another type, a
\* reply with an id nobody asked for, no reply at all).
RealpathReplies(r) ==
    {[ok |-> TRUE, id |-> r.id, type |-> "NAME", count |-> c, fault |-> 0] :
        c \in 0..2}
    \cup {[ok |-> TRUE, id |-> r.id, type |-> "STATUS", count |-> 0,
           fault |-> 0],
          [ok |-> TRUE, id |-> r.id, type |-> "ATTRS", count |-> 0,
           fault |-> 1],
          [ok |-> TRUE, id |-> BadId, type |-> "NAME", count |-> 1,
           fault |-> 1],
          [ok |-> FALSE, id |-> BadId, type |-> "NAME", count |-> 1,
           fault |-> 1]}

\* What do_realpath returns for a reply: 0 for the file name, -1 for NULL.
RealpathResult(ok, rid, rtype, count, expected) ==
    IF ~ok THEN -1
    ELSE IF rid # expected THEN -1
    ELSE IF rtype = "STATUS" THEN -1
    ELSE IF rtype # "NAME" THEN -1
    ELSE IF count # 1 THEN -1
    ELSE 0

\* do_realpath from the reply on: it returns in every case.
RealpathReply ==
    /\ pc = "rp_wait"
    /\ \E r \in srvq : \E rep \in RealpathReplies(r) :
        /\ faults + rep.fault <= MaxFaults
        /\ faults' = faults + rep.fault
        /\ viol' = ReplyViolation(rep.ok, rep.id, rep.type, id,
                                  {"NAME", "STATUS"})
        /\ srvq' = IF rep.ok /\ rep.id = r.id THEN srvq \ {r} ELSE srvq
        /\ ret' = RealpathResult(rep.ok, rep.id, rep.type, rep.count, id)
    /\ pc' = "ret"
    /\ UNCHANGED <<args, version_pairs,
                   conn, interrupted, op, nops, nsent, lastReq,
                   hcount, closes, handle, status, offset, id, pflag,
                   dlvars, ulvars, rdvars>>

\* ------------------------------------------------------------ do_download
\* Bytes of the range a READ asks for that lie inside the remote file.
Avail(r) == IF r.offset < rsize THEN Min(r.len, rsize - r.offset) ELSE 0

\* The lengths of an honest DATA reply to a READ of n > 0 available bytes.
ReplyLens(n) == {n} \cup (IF n > ShortFloor THEN {Half(n)} ELSE {})

\* The replies a server may give to request r while do_download waits.
\* An honest server answers a READ inside the file with a non-empty prefix
\* of the range (src is the file position of the first byte sent) and a READ
\* at or past the end with STATUS EOF; the others are misbehaviours.
ReadReplies(r) ==
    IF r.type # "READ"
    THEN {[id |-> r.id, type |-> "STATUS", code |-> SSH2_FX_OK, len |-> 0,
           src |-> 0, fault |-> 0]}
    ELSE (IF Avail(r) > 0
          THEN {[id |-> r.id, type |-> "DATA", code |-> 0, len |-> n,
                 src |-> r.offset, fault |-> 0] :
                    n \in ReplyLens(Avail(r))}
          ELSE {[id |-> r.id, type |-> "STATUS", code |-> SSH2_FX_EOF,
                 len |-> 0, src |-> 0, fault |-> 0]})
         \cup {[id |-> r.id, type |-> "STATUS", code |-> c, len |-> 0,
                src |-> 0, fault |-> 1] :
                    c \in {SSH2_FX_OK, SSH2_FX_FAILURE}}
         \cup {[id |-> r.id, type |-> "DATA", code |-> 0, len |-> n,
                src |-> r.offset, fault |-> 1] : n \in {0, r.len + 1}}
         \cup {[id |-> r.id, type |-> "NAME", code |-> 0, len |-> 0,
                src |-> 0, fault |-> 1],
               [id |-> BadId, type |-> "STATUS", code |-> SSH2_FX_EOF,
                len |-> 0, src |-> 0, fault |-> 1]}

\* Lines 1089-1100: the window after a DATA reply, when max_req > 0.
NextMaxReq(mr, sz, off, nreq) ==
    IF sz > 0 /\ off > sz THEN 1
    ELSE IF mr <= nreq THEN mr + 1
    ELSE mr

\* Lines 1085-1087: the request length after a short DATA reply of ln bytes.
ShrinkBuflen(bl, ln) == IF ln < bl THEN Max(MIN_READ_SIZE, ln) ELSE bl

\* The tail is asked for again from the offset of the original request.
ReRequestSameOffset(req, ln, newid) ==
    [id |-> newid, len |-> req.len - ln, offset |-> req.offset]

\* The whole range of the original request is asked for again.
ReRequestWholeRange(req, ln, newid) ==
    [id |-> newid, len |-> req.len, offset |-> req.offset]

\* Lines 1080-1082: the queue entry re-issued for the missing tail.
ReRequest(req, ln, newid) ==
    [id |-> newid, len |-> req.len - ln, offset |-> req.offset + ln]

\* The local file is a set of disjoint extents: bytes off..off+len-1 hold
\* the bytes src..src+len-1 of the remote file. Adjacent extents that
\* continue each other are kept merged, so equal files are equal sets.
Covers(w, p) == w.off <= p /\ p < w.off + w.len
Extent(o, l, s) == [off |-> o, len |-> l, src |-> s]

\* What is left of extent e when the range of w is overwritten.
Clip(e, w) ==
    (IF e.off < w.off
     THEN {Extent(e.off, Min(e.len, w.off - e.off), e.src)} ELSE {})
    \cup
    (IF e.off + e.len > w.off + w.len
     THEN LET o == Max(e.off, w.off + w.len)
          IN {Extent(o, e.off + e.len - o, e.src + (o - e.off))}
     ELSE {})

Continues(a, b) == a.off + a.len = b.off /\ a.src + a.len = b.src

RECURSIVE RunEnd(_, _)
RunEnd(S, e) ==
    IF \E x \in S : Continues(e, x)
    THEN RunEnd(S, CHOOSE x \in S : Continues(e, x))
    ELSE e.off + e.len

Merge(S) ==
    {Extent(e.off, RunEnd(S, e) - e.off, e.src) :
        e \in {x \in S : ~\E y \in S : Continues(y, x)}}

\* lseek(local_fd, w.off) and a write of w.len bytes.
WriteAt(f, w) == Merge(UNION {Clip(e, w) : e \in f} \cup {w})

LocalByte(p) ==
    IF \E e \in lfile : Covers(e, p)
    THEN LET e == CHOOSE x \in lfile : Covers(x, p)
         IN e.src + (p - e.off)
    ELSE -1
RemoteByte(p) == p

\* do_download up to the do_stat request.
StartDownload ==
    /\ pc = "idle" /\ nops < MaxOps /\ nsent <= MaxStartSent
    /\ op' = "download"
    /\ nops' = nops + 1
    /\ rsize' \in RemoteSizes
    /\ id' = conn.msg_id
    /\ conn' = [conn EXCEPT !.msg_id = @ + 1]
    /\ SendMsg(Request(IF conn.version = 0 THEN "STAT_VERSION_0" ELSE "STAT",
                       conn.msg_id, 0, 0, NoHandle))
    /\ handle' = NoHandle /\ status' = 0 /\ offset' = 0
    /\ buflen' = 0 /\ num_req' = 0 /\ max_req' = 0 /\ size' = 0
    /\ requests' = <<>> /\ read_error' = FALSE /\ write_error' = FALSE
    /\ write_errno' = 0 /\ lfile' = {} /\ firstErrno' = 0
    /\ fchmodFailed' = FALSE
    /\ pc' = "dl_stat_wait"
    /\ intr_seen' = FALSE
    /\ UNCHANGED <<args, version_pairs, viol,
                   interrupted, ret, faults, hcount, pflag, ulvars, rdvars>>

\* get_decode_stat, the checks on the attributes, and the OPEN request.
DlStatReply ==
    /\ pc = "dl_stat_wait"
    /\ \E r \in srvq :
       \E rep \in {[id |-> r.id, type |-> "ATTRS", hasSize |-> TRUE, reg |-> TRUE],
                   [id |-> r.id, type |-> "ATTRS", hasSize |-> FALSE, reg |-> TRUE],
                   [id |-> r.id, type |-> "ATTRS", hasSize |-> TRUE, reg |-> FALSE],
                   [id |-> r.id, type |-> "STATUS", hasSize |-> FALSE, reg |-> FALSE],
                   [id |-> BadId, type |-> "ATTRS", hasSize |-> TRUE, reg |-> TRUE]} :
        /\ viol' = ReplyViolation(TRUE, rep.id, rep.type, id,
                                  {"ATTRS", "STATUS"})
        /\ IF rep.id # id
           THEN /\ pc' = "fatal"
                /\ srvq' = srvq \ {r}
                /\ UNCHANGED <<conn, ret, nsent, lastReq, closes, id, size, buflen>>
           ELSE IF rep.type = "STATUS" \/ ~rep.reg
           THEN /\ pc' = "ret"
                /\ ret' = -1
                /\ srvq' = srvq \ {r}
                /\ UNCHANGED <<conn, nsent, lastReq, closes, id, size, buflen>>
           ELSE /\ size' = IF rep.hasSize THEN rsize ELSE 0
                /\ buflen' = conn.transfer_buflen
                /\ id' = conn.msg_id
                /\ conn' = [conn EXCEPT !.msg_id = @ + 1]
                /\ srvq' = (srvq \ {r}) \cup
                           {Request("OPEN", conn.msg_id, 0, 0, NoHandle)}
                /\ nsent' = nsent + 1
                /\ lastReq' = Request("OPEN", conn.msg_id, 0, 0, NoHandle)
                /\ pc' = "dl_open_wait"
                /\ UNCHANGED <<ret, closes>>
    /\ UNCHANGED <<args, version_pairs, intr_seen,
                   interrupted, op, nops, faults, hcount, handle, status,
                   offset, pflag, num_req, max_req, requests, read_error,
                   write_error, write_errno, rsize, lfile, firstErrno,
                   fchmodFailed, ulvars, rdvars>>

\* get_handle for the OPEN, and the initialisation of the loop (line 994).
DlOpenReply ==
    /\ pc = "dl_open_wait"
    /\ \E r \in srvq : \E t \in {"HANDLE", "STATUS", "ATTRS"} :
      \E rid \in {r.id, BadId} :
        LET h == get_handle(rid, t, hcount + 1, id) IN
        /\ srvq' = srvq \ {r}
        /\ viol' = ReplyViolation(TRUE, rid, t, id, {"HANDLE", "STATUS"})
        /\ IF h = "fatal"
           THEN /\ pc' = "fatal"
                /\ UNCHANGED <<ret, handle, hcount, max_req>>
           ELSE IF h = "null"
           THEN /\ pc' = "ret"
                /\ ret' = -1
                /\ UNCHANGED <<handle, hcount, max_req>>
           ELSE /\ handle' = hcount + 1
                /\ hcount' = hcount + 1
                /\ max_req' = 1
                /\ pc' = "dl_top"
                /\ UNCHANGED ret
    /\ UNCHANGED <<args, version_pairs, intr_seen,
                   conn, interrupted, op, nops, nsent, lastReq, faults,
                   closes, status, offset, id, pflag, buflen, num_req, size,
                   requests, read_error, write_error, write_errno, rsize,
                   lfile, firstErrno, fchmodFailed, ulvars, rdvars>>

\* As DlTop, but an interrupt with requests outstanding leaves the window as
\* it is.
DlTopKeepWindow ==
    /\ pc = "dl_top"
    /\ IF ~(num_req > 0 \/ max_req > 0) \/ (interrupted /\ num_req = 0)
       THEN /\ pc' = "dl_after"
            /\ UNCHANGED max_req
       ELSE /\ max_req' = max_req
            /\ pc' = IF num_req < max_req' THEN "dl_send" ELSE "dl_recv"
    /\ intr_seen' = (intr_seen \/ interrupted)
    /\ UNCHANGED <<args, version_pairs, viol,
                   conn, interrupted, op, nops, ret, srvq, nsent, lastReq,
                   faults, hcount, closes, handle, status, offset, id, pflag,
                   buflen, num_req, size, requests, read_error, write_error,
                   write_errno, rsize, lfile, firstErrno, fchmodFailed,
                   ulvars, rdvars>>

\* As DlTop, but an interrupt leaves the loop at once, whatever is still
\* outstanding.
DlTopBreakOnInterrupt ==
    /\ pc = "dl_top"
    /\ IF ~(num_req > 0 \/ max_req > 0) \/ interrupted
       THEN /\ pc' = "dl_after"
            /\ UNCHANGED max_req
       ELSE /\ max_req' = IF interrupted THEN 0 ELSE max_req
            /\ pc' = IF num_req < max_req' THEN "dl_send" ELSE "dl_recv"
    /\ intr_seen' = (intr_seen \/ interrupted)
    /\ UNCHANGED <<args, version_pairs, viol,
                   conn, interrupted, op, nops, ret, srvq, nsent, lastReq,
                   faults, hcount, closes, handle, status, offset, id, pflag,
                   buflen, num_req, size, requests, read_error, write_error,
                   write_errno, rsize, lfile, firstErrno, fchmodFailed,
                   ulvars, rdvars>>

\* Lines 997-1012: the loop test, the poll of the interrupt flag and the
\* test of the inner loop.
DlTop ==
    /\ pc = "dl_top"
    /\ IF ~(num_req > 0 \/ max_req > 0) \/ (interrupted /\ num_req = 0)
       THEN /\ pc' = "dl_after"
            /\ UNCHANGED max_req
       ELSE /\ max_req' = IF interrupted THEN 0 ELSE max_req
            /\ pc' = IF num_req < max_req' THEN "dl_send" ELSE "dl_recv"
    /\ intr_seen' = (intr_seen \/ interrupted)
    /\ UNCHANGED <<args, version_pairs, viol,
                   conn, interrupted, op, nops, ret, srvq, nsent, lastReq,
                   faults, hcount, closes, handle, status, offset, id, pflag,
                   buflen, num_req, size, requests, read_error, write_error,
                   write_errno, rsize, lfile, firstErrno, fchmodFailed,
                   ulvars, rdvars>>

\* Lines 1012-1026: one iteration of the inner loop. nextid is the value
\* conn->msg_id++ leaves in conn->msg_id, count what the request adds to
\* the count of messages sent.
DlSendStep(nextid, count) ==
    /\ requests' = Append(requests,
                     [id |-> conn.msg_id, len |-> buflen, offset |-> offset])
    /\ conn' = [conn EXCEPT !.msg_id = nextid]
    /\ offset' = offset + buflen
    /\ num_req' = num_req + 1
    /\ srvq' = srvq \cup {Request("READ", conn.msg_id, offset, buflen, handle)}
    /\ nsent' = nsent + count
    /\ lastReq' = Request("READ", conn.msg_id, offset, buflen, handle)
    /\ UNCHANGED closes
    /\ pc' = IF num_req' < max_req THEN "dl_send" ELSE "dl_recv"
    /\ UNCHANGED <<args, version_pairs, viol, intr_seen,
                   interrupted, op, nops, ret, faults, hcount, handle,
                   status, id, pflag, buflen, max_req, size, read_error,
                   write_error, write_errno, rsize, lfile, firstErrno,
                   fchmodFailed, ulvars, rdvars>>

\* The inner loop on a connection whose msg_id has not wrapped.
DlSend ==
    /\ pc = "dl_send"
    /\ DlSendStep(conn.msg_id + 1, 1)

\* Lines 1039-1059: what makes a reply received by do_download a protocol
\* violation: no queued request has its id, it is neither a STATUS nor a
\* DATA, or it is a DATA longer than the request it answers.
DlViolation(rep) ==
    IF \A k \in 1..Len(requests) : requests[k].id # rep.id
    THEN "unknown_id"
    ELSE IF rep.type \notin {"STATUS", "DATA"} THEN "bad_type"
    ELSE IF /\ rep.type = "DATA"
            /\ \E k \in 1..Len(requests) :
                  requests[k].id = rep.id /\ rep.len > requests[k].len
    THEN "too_long"
    ELSE "none"

\* Lines 1028-1105: one reply received and processed. wf is the errno of the
\* failing lseek/write of a DATA block, 0 when they succeed.
DlRecvStep(r, rep, wf, nextid, count) ==
    LET i == FindId(requests, rep.id)
        nf == rep.fault + (IF wf # 0 THEN 1 ELSE 0)
    IN
    /\ faults + nf <= MaxFaults
    /\ faults' = faults + nf
    /\ viol' = DlViolation(rep)
    /\ IF i = 0 \/ rep.type \notin {"STATUS", "DATA"}
          \/ (rep.type = "DATA" /\ rep.len > requests[i].len)
       THEN /\ wf = 0
            /\ pc' = "fatal"
            /\ srvq' = srvq \ {r}
            /\ UNCHANGED <<conn, nsent, lastReq, closes, status, buflen,
                           num_req, max_req, requests, read_error,
                           write_error, write_errno, lfile, firstErrno>>
       ELSE IF rep.type = "STATUS"
       THEN /\ wf = 0
            /\ status' = rep.code
            /\ read_error' = (read_error \/ rep.code # SSH2_FX_EOF)
            /\ max_req' = 0
            /\ requests' = RemoveAt(requests, i)
            /\ num_req' = num_req - 1
            /\ srvq' = srvq \ {r}
            /\ pc' = "dl_top"
            /\ UNCHANGED <<conn, nsent, lastReq, closes, buflen,
                           write_error, write_errno, lfile, firstErrno>>
       ELSE LET req == requests[i]
                latch == wf # 0 /\ ~write_error
                mr == IF latch THEN 0 ELSE max_req
                nr == ReRequest(req, rep.len, conn.msg_id)
            IN
            /\ (wf # 0 => rep.len > 0)
            /\ lfile' = IF wf = 0 /\ rep.len > 0
                        THEN WriteAt(lfile, Extent(req.offset, rep.len,
                                                   rep.src))
                        ELSE lfile
            /\ write_errno' = IF latch THEN wf ELSE write_errno
            /\ write_error' = (write_error \/ latch)
            /\ firstErrno' = IF wf # 0 /\ firstErrno = 0 THEN wf
                             ELSE firstErrno
            /\ IF rep.len = req.len
               THEN /\ requests' = RemoveAt(requests, i)
                    /\ num_req' = num_req - 1
                    /\ srvq' = srvq \ {r}
                    /\ UNCHANGED <<conn, nsent, lastReq, closes, buflen>>
               ELSE /\ requests' = [requests EXCEPT ![i] = nr]
                    /\ conn' = [conn EXCEPT !.msg_id = nextid]
                    /\ srvq' = (srvq \ {r}) \cup
                         {Request("READ", nr.id, nr.offset, nr.len, handle)}
                    /\ nsent' = nsent + count
                    /\ lastReq' = Request("READ", nr.id, nr.offset,
                                          nr.len, handle)
                    /\ buflen' = ShrinkBuflen(buflen, rep.len)
                    /\ UNCHANGED <<closes, num_req>>
            /\ max_req' = IF mr > 0
                          THEN NextMaxReq(mr, size, offset,
                                          conn.num_requests)
                          ELSE mr
            /\ pc' = "dl_top"
            /\ UNCHANGED <<status, read_error>>
    /\ UNCHANGED <<args, version_pairs, intr_seen,
                   interrupted, op, nops, ret, hcount, handle, offset, id,
                   pflag, size, rsize, fchmodFailed, ulvars, rdvars>>

\* A reply out of those the server may give, on a connection whose msg_id
\* has not wrapped.
DlRecv ==
    /\ pc = "dl_recv"
    /\ \E r \in srvq : \E rep \in ReadReplies(r) : \E wf \in {0} \cup Errnos :
        DlRecvStep(r, rep, wf, conn.msg_id + 1, 1)

\* As DlAfter, but the branch of a local write error returns at once,
\* leaving the remote handle open.
DlAfterNoCloseOnWriteError ==
    /\ pc = "dl_after"
    /\ IF requests # <<>>
       THEN /\ pc' = "fatal"
            /\ NoSend
            /\ UNCHANGED <<conn, id, status, pflag, ret>>
       ELSE IF ~read_error /\ write_error
       THEN /\ status' = -1
            /\ ret' = -1
            /\ pc' = "ret"
            /\ NoSend
            /\ UNCHANGED <<conn, id, pflag>>
       ELSE /\ pflag' \in BOOLEAN
            /\ id' = conn.msg_id
            /\ conn' = [conn EXCEPT !.msg_id = @ + 1]
            /\ SendMsg(Request("CLOSE", conn.msg_id, 0, 0, handle))
            /\ pc' = "dl_close_wait"
            /\ UNCHANGED <<status, ret>>
    /\ intr_seen' = FALSE
    /\ UNCHANGED <<args, version_pairs, viol,
                   interrupted, op, nops, faults, hcount, handle,
                   offset, buflen, num_req, max_req, size, requests,
                   read_error, write_error, write_errno, rsize, lfile,
                   firstErrno, fchmodFailed, ulvars, rdvars>>

\* Lines 1108-1122: the sanity check and the CLOSE request of do_close.
DlAfter ==
    /\ pc = "dl_after"
    /\ IF requests # <<>>
       THEN /\ pc' = "fatal"
            /\ NoSend
            /\ UNCHANGED <<conn, id, status, pflag>>
       ELSE /\ pflag' \in BOOLEAN
            /\ status' = IF ~read_error /\ write_error THEN -1 ELSE status
            /\ id' = conn.msg_id
            /\ conn' = [conn EXCEPT !.msg_id = @ + 1]
            /\ SendMsg(Request("CLOSE", conn.msg_id, 0, 0, handle))
            /\ pc' = "dl_close_wait"
    /\ intr_seen' = FALSE
    /\ UNCHANGED <<args, version_pairs, viol,
                   interrupted, op, nops, ret, faults, hcount, handle,
                   offset, buflen, num_req, max_req, size, requests,
                   read_error, write_error, write_errno, rsize, lfile,
                   firstErrno, fchmodFailed, ulvars, rdvars>>

\* get_status of do_close, the fchmod of lines 1125-1127 (ff: it fails) and
\* the return of line 1143.
DlCloseReply ==
    /\ pc = "dl_close_wait"
    /\ \E o \in StatusOutcomes(id) : \E ff \in BOOLEAN :
        LET fch == ~read_error /\ ~write_error /\ pflag
            nf == o.fault + (IF ff THEN 1 ELSE 0)
        IN
        /\ (ff => fch)
        /\ faults + nf <= MaxFaults
        /\ viol' = o.kind
        /\ faults' = faults + nf
        /\ srvq' = srvq \ o.taken
        /\ status' = IF ~read_error /\ ~write_error THEN o.st ELSE status
        /\ fchmodFailed' = ff
        /\ ret' = status'
    /\ pc' = "ret"
    /\ UNCHANGED <<args, version_pairs, intr_seen,
                   conn, interrupted, op, nops, nsent, lastReq, hcount,
                   closes, handle, offset, id, pflag, buflen, num_req,
                   max_req, size, requests, read_error, write_error,
                   write_errno, rsize, lfile, firstErrno, ulvars, rdvars>>

\* -------------------------------------------------------------- do_upload
\* The replies a server may give to request r while do_upload waits.
WriteReplies(r) ==
    {[id |-> r.id, type |-> "STATUS", code |-> SSH2_FX_OK, fault |-> 0],
     [id |-> r.id, type |-> "STATUS", code |-> SSH2_FX_FAILURE, fault |-> 1],
     [id |-> r.id, type |-> "DATA", code |-> 0, fault |-> 1],
     [id |-> BadId, type |-> "STATUS", code |-> SSH2_FX_OK, fault |-> 1]}

\* u_int arithmetic of do_upload. A u_int is held as two 16-bit limbs, hi and
\* lo; the ids of the model are below Limb.
Limb == 65536
U32(n) == [hi |-> n \div Limb, lo |-> n % Limb]

\* a - b modulo 2^32, for 0 <= a, b < Limb.
U32Sub(a, b) ==
    IF a >= b THEN [hi |-> 0, lo |-> a - b]
    ELSE [hi |-> Limb - 1, lo |-> Limb - (b - a)]

\* x >= y and x <= y on u_int values.
U32Ge(x, y) == x.hi > y.hi \/ (x.hi = y.hi /\ x.lo >= y.lo)
U32Le(x, y) == U32Ge(y, x)

\* The window is full one WRITE later.
NeedAckLate(wid, sid, ln, aid, nreq) ==
    \/ wid = sid
    \/ ln = 0
    \/ (U32Ge(U32Sub(wid, aid), U32(nreq)) /\ U32Sub(wid, aid) # U32(nreq))

\* Line 1267-1268: whether the iteration waits for one acknowledgement.
\* id - ackid is a u_int difference: when id < ackid it wraps.
NeedAck(wid, sid, ln, aid, nreq) ==
    \/ wid = sid
    \/ ln = 0
    \/ U32Ge(U32Sub(wid, aid), U32(nreq))

\* The acknowledgement is not counted.
NextAckidStuck(aid) == aid

\* Line 1293.
NextAckid(aid) == aid + 1

\* The offset stays where the first WRITE was put.
NextOffsetStuck(off, n) == off

\* Line 1296: offset += len at the end of a turn of the loop.
NextOffset(off, n) == off + n

\* Lines 1176-1210: fstat of the local file (ok: it succeeds and the file is
\* regular) and the OPEN request.
StartUpload ==
    /\ pc = "idle" /\ nops < MaxOps /\ nsent <= MaxStartSent
    /\ op' = "upload"
    /\ nops' = nops + 1
    /\ \E ok \in BOOLEAN :
        IF ~ok
        THEN /\ pc' = "ret"
             /\ ret' = -1
             /\ NoSend
             /\ UNCHANGED <<conn, id, uleft, status>>
        ELSE /\ uleft' \in UploadSizesFor(conn.transfer_buflen)
             /\ status' = SSH2_FX_OK
             /\ id' = conn.msg_id
             /\ conn' = [conn EXCEPT !.msg_id = @ + 1]
             /\ SendMsg(Request("OPEN", conn.msg_id, 0, 0, NoHandle))
             /\ pc' = "ul_open_wait"
             /\ UNCHANGED ret
    /\ UNCHANGED <<args, version_pairs, viol,
                   interrupted, faults, hcount, handle, offset, pflag, dlvars,
                   startid, ackid, acks, len, nwrites, badAck, rdvars>>

\* Lines 1214-1224: get_handle and the initialisation of the loop.
UlOpenReply ==
    /\ pc = "ul_open_wait"
    /\ \E r \in srvq : \E t \in {"HANDLE", "STATUS", "ATTRS"} :
      \E rid \in {r.id, BadId} :
        LET h == get_handle(rid, t, hcount + 1, id) IN
        /\ srvq' = srvq \ {r}
        /\ viol' = ReplyViolation(TRUE, rid, t, id, {"HANDLE", "STATUS"})
        /\ IF h = "fatal"
           THEN /\ pc' = "fatal"
                /\ UNCHANGED <<ret, handle, hcount, startid, ackid>>
           ELSE IF h = "null"
           THEN /\ pc' = "ret"
                /\ ret' = -1
                /\ UNCHANGED <<handle, hcount, startid, ackid>>
           ELSE /\ handle' = hcount + 1
                /\ hcount' = hcount + 1
                /\ startid' = id + 1
                /\ ackid' = id + 1
                /\ pc' = "ul_loop"
                /\ UNCHANGED ret
    /\ UNCHANGED <<args, version_pairs,
                   conn, interrupted, op, nops, nsent, lastReq, faults,
                   closes, status, offset, id, pflag, dlvars, acks, len,
                   uleft, nwrites, badAck, rdvars>>

\* As UlLoop, but a zero-length read leaves the loop at once, whatever is
\* still unacknowledged.
UlLoopExitAtEof ==
    /\ pc = "ul_loop"
    /\ \E rf \in BOOLEAN :
        LET n == IF interrupted \/ status # SSH2_FX_OK THEN 0
                 ELSE Min(conn.transfer_buflen, uleft)
            wid == IF n # 0 THEN id + 1 ELSE id
        IN
        IF rf
        THEN /\ ~(interrupted \/ status # SSH2_FX_OK)
             /\ faults < MaxFaults
             /\ faults' = faults + 1
             /\ pc' = "fatal"
             /\ NoSend
             /\ UNCHANGED <<id, acks, len, uleft, nwrites, offset>>
        ELSE /\ len' = n
             /\ uleft' = uleft - n
             /\ id' = wid
             /\ faults' = faults
             /\ IF n # 0
                THEN /\ acks' = Append(acks, [id |-> wid, offset |-> offset,
                                              len |-> n])
                     /\ nwrites' = nwrites + 1
                     /\ SendMsg(Request("WRITE", wid, offset, n, handle))
                ELSE /\ NoSend
                     /\ UNCHANGED <<acks, nwrites>>
             /\ IF n = 0
                THEN /\ pc' = "ul_after"
                     /\ UNCHANGED offset
                ELSE IF NeedAck(wid, startid, n, ackid, conn.num_requests)
                THEN /\ pc' = "ul_recv"
                     /\ UNCHANGED offset
                ELSE /\ pc' = "ul_loop"
                     /\ offset' = NextOffset(offset, n)
    /\ UNCHANGED <<args, version_pairs, viol,
                   conn, interrupted, op, nops, ret, hcount, handle, status,
                   pflag, dlvars, startid, ackid, badAck, rdvars>>

\* Lines 1226-1268 and 1296: the poll of the interrupt flag, the local read
\* (rf: it fails), the WRITE request, the exit test and the window test.
\* The test of line 1264 cannot succeed: ack is only NULL before the first
\* WRITE, and then len == 0 leaves the loop.
UlLoop ==
    /\ pc = "ul_loop"
    /\ \E rf \in BOOLEAN :
        LET n == IF interrupted \/ status # SSH2_FX_OK THEN 0
                 ELSE Min(conn.transfer_buflen, uleft)
            wid == IF n # 0 THEN id + 1 ELSE id
        IN
        IF rf
        THEN /\ ~(interrupted \/ status # SSH2_FX_OK)
             /\ faults < MaxFaults
             /\ faults' = faults + 1
             /\ pc' = "fatal"
             /\ NoSend
             /\ UNCHANGED <<id, acks, len, uleft, nwrites, offset>>
        ELSE /\ len' = n
             /\ uleft' = uleft - n
             /\ id' = wid
             /\ faults' = faults
             /\ IF n # 0
                THEN /\ acks' = Append(acks, [id |-> wid, offset |-> offset,
                                              len |-> n])
                     /\ nwrites' = nwrites + 1
                     /\ SendMsg(Request("WRITE", wid, offset, n, handle))
                ELSE /\ NoSend
                     /\ UNCHANGED <<acks, nwrites>>
             /\ IF n = 0 /\ acks = <<>>
                THEN /\ pc' = "ul_after"
                     /\ UNCHANGED offset
                ELSE IF NeedAck(wid, startid, n, ackid, conn.num_requests)
                THEN /\ pc' = "ul_recv"
                     /\ UNCHANGED offset
                ELSE /\ pc' = "ul_loop"
                     /\ offset' = NextOffset(offset, n)
    /\ UNCHANGED <<args, version_pairs, viol,
                   conn, interrupted, op, nops, ret, hcount, handle, status,
                   pflag, dlvars, startid, ackid, badAck, rdvars>>

\* Lines 1276-1289: what makes a reply received by do_upload a protocol
\* violation: it is not a STATUS, or no queued ack has its id.
UlViolation(rep) ==
    IF rep.type # "STATUS" THEN "bad_type"
    ELSE IF \A k \in 1..Len(acks) : acks[k].id # rep.id THEN "unknown_id"
    ELSE "none"

\* Lines 1269-1296: one acknowledgement received.
UlRecv ==
    /\ pc = "ul_recv"
    /\ \E r \in srvq : \E rep \in WriteReplies(r) :
        LET i == FindId(acks, rep.id) IN
        /\ faults + rep.fault <= MaxFaults
        /\ faults' = faults + rep.fault
        /\ viol' = UlViolation(rep)
        /\ srvq' = IF rep.id = BadId THEN srvq ELSE srvq \ {r}
        /\ IF rep.type # "STATUS"
           THEN /\ pc' = "fatal"
                /\ UNCHANGED <<status, acks, ackid, offset, badAck>>
           ELSE IF i = 0
           THEN /\ pc' = "fatal"
                /\ status' = rep.code
                /\ UNCHANGED <<acks, ackid, offset, badAck>>
           ELSE /\ status' = rep.code
                /\ acks' = RemoveAt(acks, i)
                /\ ackid' = NextAckid(ackid)
                /\ offset' = NextOffset(offset, len)
                /\ badAck' = (badAck \/ rep.code # SSH2_FX_OK)
                /\ pc' = "ul_loop"
    /\ UNCHANGED <<args, version_pairs,
                   conn, interrupted, op, nops, ret, nsent, lastReq, hcount,
                   closes, handle, id, pflag, dlvars, startid, len, uleft,
                   nwrites, rdvars>>

\* Lines 1304-1320: the status of the loop, then the FSETSTAT request of
\* do_fsetstat when pflag is set, else the CLOSE request of do_close.
UlAfter ==
    /\ pc = "ul_after"
    /\ status' = IF status # SSH2_FX_OK THEN -1 ELSE status
    /\ pflag' \in BOOLEAN
    /\ conn' = [conn EXCEPT !.msg_id = @ + 1]
    /\ IF pflag'
       THEN /\ SendMsg(Request("FSETSTAT", conn.msg_id, 0, 0, handle))
            /\ pc' = "ul_fsetstat_wait"
       ELSE /\ SendMsg(Request("CLOSE", conn.msg_id, 0, 0, handle))
            /\ pc' = "ul_close_wait"
    /\ UNCHANGED <<args, version_pairs, viol,
                   interrupted, op, nops, ret, faults, hcount, handle,
                   offset, id, dlvars, ulvars, rdvars>>

\* get_status of do_fsetstat (its result is dropped) and the CLOSE request.
UlFsetstatReply ==
    /\ pc = "ul_fsetstat_wait"
    /\ \E o \in StatusOutcomes(conn.msg_id - 1) :
        /\ faults + o.fault <= MaxFaults
        /\ viol' = o.kind
        /\ faults' = faults + o.fault
        /\ srvq' = (srvq \ o.taken) \cup
                   {Request("CLOSE", conn.msg_id, 0, 0, handle)}
    /\ nsent' = nsent + 1
    /\ lastReq' = Request("CLOSE", conn.msg_id, 0, 0, handle)
    /\ closes' = [closes EXCEPT ![handle] = @ + 1]
    /\ conn' = [conn EXCEPT !.msg_id = @ + 1]
    /\ pc' = "ul_close_wait"
    /\ UNCHANGED <<args, version_pairs,
                   interrupted, op, nops, ret, hcount, handle, status,
                   offset, id, pflag, dlvars, ulvars, rdvars>>

\* get_status of do_close and the return of line 1324.
UlCloseReply ==
    /\ pc = "ul_close_wait"
    /\ \E o \in StatusOutcomes(conn.msg_id - 1) :
        /\ faults + o.fault <= MaxFaults
        /\ viol' = o.kind
        /\ faults' = faults + o.fault
        /\ srvq' = srvq \ o.taken
        /\ status' = IF o.st # SSH2_FX_OK THEN -1 ELSE status
        /\ ret' = status'
    /\ pc' = "ret"
    /\ UNCHANGED <<args, version_pairs,
                   conn, interrupted, op, nops, nsent, lastReq, hcount,
                   closes, handle, offset, id, pflag, dlvars, ulvars,
                   rdvars>>

\* ----------------------------------------------------------- do_lsreaddir
HasSlash(f) == \E i \in 1..Len(f) : f[i] = "/"

\* The first suspect entry ends the decoding of the reply.
RECURSIVE KeepNamesUntilSlash(_)
KeepNamesUntilSlash(ns) ==
    IF ns = <<>> THEN <<>>
    ELSE IF HasSlash(Head(ns)) THEN <<>>
    ELSE <<Head(ns)>> \o KeepNamesUntilSlash(Tail(ns))

\* The last entry of a reply is never kept.
KeepNamesButLast(ns) ==
    SelectSeq(SubSeq(ns, 1, Len(ns) - 1), LAMBDA f : ~HasSlash(f))

\* Lines 477-510: the entries of one NAME reply that are kept.
RECURSIVE KeepNames(_)
KeepNames(ns) ==
    IF ns = <<>> THEN <<>>
    ELSE (IF HasSlash(Head(ns)) THEN <<>> ELSE <<Head(ns)>>)
         \o KeepNames(Tail(ns))

NameLists == {<<f>> : f \in FileNames}
             \cup {<<f, g>> : f \in FileNames, g \in FileNames}

\* The replies a server may give to request r while do_lsreaddir waits.
ReaddirReplies(r) ==
    (IF nname < MaxNameReplies
     THEN {[id |-> r.id, type |-> "NAME", code |-> 0, names |-> ns,
            fault |-> 0] : ns \in NameLists}
     ELSE {})
    \cup {[id |-> r.id, type |-> "NAME", code |-> 0, names |-> <<>>,
           fault |-> 0],
          [id |-> r.id, type |-> "STATUS", code |-> SSH2_FX_EOF,
           names |-> <<>>, fault |-> 0],
          [id |-> r.id, type |-> "STATUS", code |-> SSH2_FX_FAILURE,
           names |-> <<>>, fault |-> 0],
          [id |-> r.id, type |-> "DATA", code |-> 0, names |-> <<>>,
           fault |-> 1],
          [id |-> BadId, type |-> "NAME", code |-> 0, names |-> <<>>,
           fault |-> 1]}

\* Lines 412-418: the OPENDIR request.
StartReaddir ==
    /\ pc = "idle" /\ nops < MaxOps /\ nsent <= MaxStartSent
    /\ op' = "readdir"
    /\ nops' = nops + 1
    /\ id' = conn.msg_id
    /\ conn' = [conn EXCEPT !.msg_id = @ + 1]
    /\ SendMsg(Request("OPENDIR", conn.msg_id, 0, 0, NoHandle))
    /\ pc' = "rd_open_wait"
    /\ UNCHANGED <<args, version_pairs, viol,
                   interrupted, ret, faults, hcount, handle, status, offset,
                   pflag, dlvars, ulvars, rdvars>>

\* Lines 422-430: get_handle and the empty list.
RdOpenReply ==
    /\ pc = "rd_open_wait"
    /\ \E r \in srvq : \E t \in {"HANDLE", "STATUS", "ATTRS"} :
      \E rid \in {r.id, BadId} :
        LET h == get_handle(rid, t, hcount + 1, id) IN
        /\ srvq' = srvq \ {r}
        /\ viol' = ReplyViolation(TRUE, rid, t, id, {"HANDLE", "STATUS"})
        /\ IF h = "fatal"
           THEN /\ pc' = "fatal"
                /\ UNCHANGED <<ret, handle, hcount>>
           ELSE IF h = "null"
           THEN /\ pc' = "ret"
                /\ ret' = -1
                /\ UNCHANGED <<handle, hcount>>
           ELSE /\ handle' = hcount + 1
                /\ hcount' = hcount + 1
                /\ pc' = "rd_loop"
                /\ UNCHANGED ret
    /\ dir' = <<>>
    /\ UNCHANGED <<args, version_pairs, lastNames, allNames,
                   conn, interrupted, op, nops, nsent, lastReq, faults,
                   closes, status, offset, id, pflag, dlvars, ulvars,
                   expected_id, nname>>

\* Lines 432-441 and 513-514: the loop test; the READDIR request when the
\* flag is clear, else the CLOSE request of the do_close after the loop.
RdLoop ==
    /\ pc = "rd_loop"
    /\ id' = conn.msg_id
    /\ conn' = [conn EXCEPT !.msg_id = @ + 1]
    /\ IF ~interrupted
       THEN /\ expected_id' = conn.msg_id
            /\ SendMsg(Request("READDIR", conn.msg_id, 0, 0, handle))
            /\ pc' = "rd_wait"
       ELSE /\ SendMsg(Request("CLOSE", conn.msg_id, 0, 0, handle))
            /\ pc' = "rd_close_wait"
            /\ UNCHANGED expected_id
    /\ lastNames' = <<>>
    /\ UNCHANGED <<args, version_pairs, viol, allNames,
                   interrupted, op, nops, ret, faults, hcount, handle,
                   status, offset, pflag, dlvars, ulvars, dir, nname>>

\* Lines 445-510: one READDIR reply; a break or a status other than EOF
\* goes on to the CLOSE request of do_close.
RdReply ==
    /\ pc = "rd_wait"
    /\ \E r \in srvq : \E rep \in ReaddirReplies(r) :
        LET close == Request("CLOSE", conn.msg_id, 0, 0, handle)
            rest == IF rep.id = BadId THEN srvq ELSE srvq \ {r}
        IN
        /\ faults + rep.fault <= MaxFaults
        /\ viol' = ReplyViolation(TRUE, rep.id, rep.type, expected_id,
                                  {"NAME", "STATUS"})
        /\ faults' = faults + rep.fault
        /\ IF rep.id # expected_id
              \/ rep.type \notin {"STATUS", "NAME"}
           THEN /\ pc' = "fatal"
                /\ srvq' = rest
                /\ UNCHANGED <<conn, nsent, lastReq, closes, id, status,
                               dir, nname, lastNames, allNames>>
           ELSE IF rep.type = "NAME" /\ rep.names # <<>>
           THEN /\ dir' = dir \o KeepNames(rep.names)
                /\ lastNames' = rep.names
                /\ allNames' = allNames \o
                       SelectSeq(rep.names, LAMBDA f : ~HasSlash(f))
                /\ nname' = nname + 1
                /\ pc' = "rd_loop"
                /\ srvq' = rest
                /\ UNCHANGED <<conn, nsent, lastReq, closes, id, status>>
           ELSE /\ srvq' = rest \cup {close}
                /\ nsent' = nsent + 1
                /\ lastReq' = close
                /\ closes' = [closes EXCEPT ![handle] = @ + 1]
                /\ id' = conn.msg_id
                /\ conn' = [conn EXCEPT !.msg_id = @ + 1]
                /\ status' = IF rep.type = "STATUS" THEN rep.code ELSE status
                /\ pc' = IF rep.type = "STATUS" /\ rep.code # SSH2_FX_EOF
                         THEN "rd_errclose_wait" ELSE "rd_close_wait"
                /\ UNCHANGED <<dir, nname, lastNames, allNames>>
    /\ UNCHANGED <<args, version_pairs,
                   interrupted, op, nops, ret, hcount, handle, offset,
                   pflag, dlvars, ulvars, expected_id>>

\* Lines 514-524: get_status of do_close, the poll of the interrupt flag
\* that empties the list, and return(0).
RdCloseReply ==
    /\ pc = "rd_close_wait"
    /\ \E o \in StatusOutcomes(id) :
        /\ faults + o.fault <= MaxFaults
        /\ viol' = o.kind
        /\ faults' = faults + o.fault
        /\ srvq' = srvq \ o.taken
    /\ dir' = IF interrupted THEN <<>> ELSE dir
    /\ ret' = 0
    /\ pc' = "ret"
    /\ UNCHANGED <<args, version_pairs, lastNames, allNames,
                   conn, interrupted, op, nops, nsent, lastReq, hcount,
                   closes, handle, status, offset, id, pflag, dlvars,
                   ulvars, expected_id, nname>>

\* Lines 465-467: get_status of do_close and return(status).
RdErrCloseReply ==
    /\ pc = "rd_errclose_wait"
    /\ \E o \in StatusOutcomes(id) :
        /\ faults + o.fault <= MaxFaults
        /\ viol' = o.kind
        /\ faults' = faults + o.fault
        /\ srvq' = srvq \ o.taken
    /\ ret' = status
    /\ pc' = "ret"
    /\ UNCHANGED <<args, version_pairs,
                   conn, interrupted, op, nops, nsent, lastReq, hcount,
                   closes, handle, status, offset, id, pflag, dlvars,
                   ulvars, rdvars>>

\* ---------------------------------------------------------------- do_init
\* Lines 327-353: the extension bits of a list of (name, value) pairs.
\* Every pair of a known name sets the name's bit, whatever its value.
ExtBitsAnyValue(e, exts) ==
    LET e1 == IF e.name = "posix-rename@openssh.com"
              THEN SetBit(exts, SFTP_EXT_POSIX_RENAME)
              ELSE IF e.name = "statvfs@openssh.com"
              THEN SetBit(exts, SFTP_EXT_STATVFS)
              ELSE exts
    IN IF e.name = "fstatvfs@openssh.com"
       THEN SetBit(e1, SFTP_EXT_FSTATVFS)
       ELSE e1

\* Lines 332-344: the if / else if / if of one turn of the loop.
ExtBits(e, exts) ==
    LET e1 == IF e.name = "posix-rename@openssh.com" /\ e.value = "1"
              THEN SetBit(exts, SFTP_EXT_POSIX_RENAME)
              ELSE IF e.name = "statvfs@openssh.com" /\ e.value = "2"
              THEN SetBit(exts, SFTP_EXT_STATVFS)
              ELSE exts
    IN IF e.name = "fstatvfs@openssh.com" /\ e.value = "2"
       THEN SetBit(e1, SFTP_EXT_FSTATVFS)
       ELSE e1

RECURSIVE ParseExts(_, _)
ParseExts(pairs, exts) ==
    IF pairs = <<>> THEN exts
    ELSE ParseExts(Tail(pairs), ExtBits(Head(pairs), exts))

RECURSIVE ExtLists(_)
ExtLists(n) ==
    IF n = 0 THEN {<<>>}
    ELSE ExtLists(n - 1)
         \cup {Append(l, e) : l \in {x \in ExtLists(n - 1) : Len(x) = n - 1},
                              e \in ExtPairs}

\* The request length is left as passed for every version.
InitBuflenNoClamp(version, requested) == requested

\* Lines 360 and 367-368: transfer_buflen of the new connection.
InitBuflen(version, requested) ==
    IF version = 0 THEN Min(requested, V0_MAX_BUFLEN) ELSE requested

\* The state in which do_init has sent its INIT (which carries no id) and
\* waits for the reply; no connection exists yet. One operation follows
\* do_init on the connection it returns.
InitConn ==
    /\ args \in [transfer_buflen : InitBufLens, num_requests : 1..MaxRequests]
    /\ conn = [transfer_buflen |-> 0, num_requests |-> 0, version |-> 0,
               msg_id |-> 0, exts |-> 0]
    /\ interrupted = FALSE
    /\ pc = "init_wait"
    /\ op = "init"
    /\ nops = MaxOps - 1
    /\ ret = 0
    /\ srvq = {}
    /\ nsent = 0
    /\ lastReq = Request("NONE", 0, 0, 0, NoHandle)
    /\ faults = 0
    /\ hcount = 0
    /\ closes = [h \in 0..MaxOps |-> 0]
    /\ handle = NoHandle /\ status = 0 /\ offset = 0 /\ id = 0
    /\ pflag = FALSE
    /\ buflen = 0 /\ num_req = 0 /\ max_req = 0 /\ size = 0
    /\ requests = <<>> /\ read_error = FALSE /\ write_error = FALSE
    /\ write_errno = 0 /\ rsize = 0 /\ lfile = {} /\ firstErrno = 0
    /\ fchmodFailed = FALSE
    /\ startid = 0 /\ ackid = 0 /\ acks = <<>> /\ len = 0 /\ uleft = 0
    /\ nwrites = 0 /\ badAck = FALSE
    /\ dir = <<>> /\ expected_id = 0 /\ nname = 0 /\ lastNames = <<>>
    /\ allNames = <<>>
    /\ intr_seen = FALSE
    /\ viol = "none"
    /\ version_pairs = <<>>

\* Lines 312-370: the reply to INIT. A failed receive or a reply that is not
\* a VERSION returns NULL; else the connection is built.
DoInitReply ==
    /\ pc = "init_wait"
    /\ \E recv_ok \in BOOLEAN, t \in {"VERSION", "STATUS"},
          version \in ServerVersions, pairs \in ExtLists(MaxExts) :
        IF ~recv_ok \/ t # "VERSION"
        THEN /\ version = 0 /\ pairs = <<>>
             /\ faults < MaxFaults
             /\ faults' = faults + 1
             /\ pc' = "noconn"
             /\ UNCHANGED <<conn, version_pairs>>
        ELSE /\ conn' = [transfer_buflen |->
                            InitBuflen(version, args.transfer_buflen),
                        num_requests |-> args.num_requests,
                        version |-> version,
                        msg_id |-> 1,
                        exts |-> ParseExts(pairs, 0)]
             /\ version_pairs' = pairs
             /\ pc' = "ret"
             /\ UNCHANGED faults
    /\ UNCHANGED <<args, viol, interrupted, op, nops, ret, srvq, nsent,
                   lastReq, hcount, closes, handle, status, offset, id,
                   pflag, dlvars, ulvars, rdvars>>

\* get_decode_stat and get_decode_statvfs: fatal on an id mismatch or an
\* unexpected type, NULL / -1 on a STATUS, the decoded reply otherwise.
get_decode(rid, rtype, expected, want) ==
    IF rid # expected THEN "fatal"
    ELSE IF rtype = "STATUS" THEN "null"
    ELSE IF rtype # want THEN "fatal"
    ELSE "ok"

\* The replies a server may give to a single-shot request r that is answered
\* by a reply of type want.
DecodeReplies(r, want) ==
    {[id |-> r.id, type |-> want, fault |-> 0],
     [id |-> r.id, type |-> "STATUS", fault |-> 0],
     [id |-> r.id, type |-> "HANDLE", fault |-> 1],
     [id |-> BadId, type |-> want, fault |-> 1]}

\* ------------------------------------------------------------- do_statvfs
\* Any negotiated extension enables the call.
StatvfsSupportedAny(exts) == exts # 0

\* Line 853.
StatvfsSupported(exts) == HasBit(exts, SFTP_EXT_STATVFS)

\* Lines 853-866: the gate on the extension and the EXTENDED request.
StartStatvfs ==
    /\ pc = "idle" /\ nops < MaxOps /\ nsent <= MaxStartSent
    /\ op' = "statvfs"
    /\ nops' = nops + 1
    /\ IF ~StatvfsSupported(conn.exts)
       THEN /\ ret' = -1
            /\ pc' = "ret"
            /\ NoSend
            /\ UNCHANGED <<conn, id>>
       ELSE /\ id' = conn.msg_id
            /\ conn' = [conn EXCEPT !.msg_id = @ + 1]
            /\ SendMsg(Request("EXTENDED", conn.msg_id, 0, 0, NoHandle))
            /\ pc' = "sv_wait"
            /\ UNCHANGED ret
    /\ UNCHANGED <<args, version_pairs, viol, interrupted, faults, hcount, handle, status,
                   offset, pflag, dlvars, ulvars, rdvars>>

\* get_decode_statvfs.
StatvfsReply ==
    /\ pc = "sv_wait"
    /\ \E r \in srvq : \E rep \in DecodeReplies(r, "EXTENDED_REPLY") :
        LET d == get_decode(rep.id, rep.type, id, "EXTENDED_REPLY") IN
        /\ faults + rep.fault <= MaxFaults
        /\ viol' = ReplyViolation(TRUE, rep.id, rep.type, id,
                                  {"EXTENDED_REPLY", "STATUS"})
        /\ faults' = faults + rep.fault
        /\ srvq' = IF rep.id = BadId THEN srvq ELSE srvq \ {r}
        /\ pc' = IF d = "fatal" THEN "fatal" ELSE "ret"
        /\ ret' = IF d = "null" THEN -1 ELSE IF d = "ok" THEN 0 ELSE ret
    /\ UNCHANGED <<args, version_pairs, conn, interrupted, op, nops, nsent, lastReq,
                   hcount, closes, handle, status, offset, id, pflag,
                   dlvars, ulvars, rdvars>>

\* --------------------------------------------------------------- do_lstat
\* Line 601: the opcode of do_stat.
StatOpcode(version) == IF version = 0 THEN "STAT_VERSION_0" ELSE "STAT"

\* LSTAT is sent whatever the version.
LstatOpcodeNoFallback(version) == "LSTAT"

\* Lines 612-621: the opcode of do_lstat, which is do_stat on version 0.
LstatOpcode(version) == IF version = 0 THEN StatOpcode(version) ELSE "LSTAT"

\* Lines 612-622 (and 598-602 on version 0): the request of do_lstat.
StartLstat ==
    /\ pc = "idle" /\ nops < MaxOps /\ nsent <= MaxStartSent
    /\ op' = "lstat"
    /\ nops' = nops + 1
    /\ id' = conn.msg_id
    /\ conn' = [conn EXCEPT !.msg_id = @ + 1]
    /\ SendMsg(Request(LstatOpcode(conn.version), conn.msg_id, 0, 0,
                       NoHandle))
    /\ pc' = "ls_wait"
    /\ UNCHANGED <<args, version_pairs, viol, interrupted, ret, faults, hcount, handle,
                   status, offset, pflag, dlvars, ulvars, rdvars>>

\* get_decode_stat.
LstatReply ==
    /\ pc = "ls_wait"
    /\ \E r \in srvq : \E rep \in DecodeReplies(r, "ATTRS") :
        LET d == get_decode(rep.id, rep.type, id, "ATTRS") IN
        /\ faults + rep.fault <= MaxFaults
        /\ viol' = ReplyViolation(TRUE, rep.id, rep.type, id,
                                  {"ATTRS", "STATUS"})
        /\ faults' = faults + rep.fault
        /\ srvq' = IF rep.id = BadId THEN srvq ELSE srvq \ {r}
        /\ pc' = IF d = "fatal" THEN "fatal" ELSE "ret"
        /\ ret' = IF d = "null" THEN -1 ELSE IF d = "ok" THEN 0 ELSE ret
    /\ UNCHANGED <<args, version_pairs, conn, interrupted, op, nops, nsent, lastReq,
                   hcount, closes, handle, status, offset, id, pflag,
                   dlvars, ulvars, rdvars>>


Next ==
    \/ Interrupt
    \/ Return
    \/ StartStatusOp
    \/ StatusOpReply
    \/ StartDownload
    \/ DlStatReply
    \/ DlOpenReply
    \/ DlTop
    \/ DlSend
    \/ DlRecv
    \/ DlAfter
    \/ DlCloseReply
    \/ StartUpload
    \/ UlOpenReply
    \/ UlLoop
    \/ UlRecv
    \/ UlAfter
    \/ UlFsetstatReply
    \/ UlCloseReply
    \/ StartReaddir
    \/ RdOpenReply
    \/ RdLoop
    \/ RdReply
    \/ RdCloseReply
    \/ RdErrCloseReply

Spec == Init /\ [][Next]_vars

\* do_init and the one operation that follows it on the new connection.
NextConn ==
    \/ DoInitReply
    \/ Interrupt
    \/ Return
    \/ StartStatusOp
    \/ StatusOpReply
    \/ StartRename
    \/ StartSymlink
    \/ StartRealpath
    \/ RealpathReply
    \/ StartReaddir
    \/ RdOpenReply
    \/ RdLoop
    \/ RdReply
    \/ RdCloseReply
    \/ RdErrCloseReply
    \/ StartStatvfs
    \/ StatvfsReply
    \/ StartLstat
    \/ LstatReply
    \/ StartDownload
    \/ DlStatReply
    \/ DlOpenReply
    \/ DlTop
    \/ DlSend
    \/ DlRecv
    \/ DlAfter
    \/ DlCloseReply
    \/ StartUpload
    \/ UlOpenReply
    \/ UlLoop
    \/ UlRecv
    \/ UlAfter
    \/ UlFsetstatReply
    \/ UlCloseReply

SpecConn == InitConn /\ [][NextConn]_vars

\* ------------------------------------------ the download loop, run for ever
\* The loop only compares ids for equality (lines 1035-1038), and those of
\* the requests outstanding are distinct as long as conn->msg_id, a u_int,
\* has not wrapped onto one of them. The model of the loop alone keeps that
\* and no more: the id after the one just used is the smallest id that no
\* outstanding request carries, so that a run of the code that never ends is
\* a cycle of states.
NextLiveId ==
    LET used == {requests[k].id : k \in 1..Len(requests)} \cup {conn.msg_id}
    IN CHOOSE i \in 0..(MaxLiveIds - 1) :
           i \notin used /\ \A j \in 0..(i - 1) : j \in used

\* The replies of a server that answers a READ with a STATUS (EOF at the
\* end of the file, or a failure) or with a DATA that is within the length
\* asked for: all the bytes available to the request, or none.
LiveReplies(r) ==
    {[id |-> r.id, type |-> "STATUS", code |-> c, len |-> 0, src |-> 0,
      fault |-> 0] :
        c \in (IF Avail(r) = 0 THEN {SSH2_FX_EOF} ELSE {}) \cup
              {SSH2_FX_FAILURE}}
    \cup {[id |-> r.id, type |-> "DATA", code |-> 0, len |-> n,
           src |-> r.offset, fault |-> 0] :
             n \in {0} \cup (IF Avail(r) > 0 THEN {Avail(r)} ELSE {})}

\* do_download at line 997, about to enter its loop: the remote file of
\* rsize bytes is open, its size known or not.
LiveInit ==
    /\ conn \in [transfer_buflen : BufLens, num_requests : {LiveRequests},
                 version : {3}, msg_id : {3}, exts : {0}]
    /\ rsize \in RemoteSizes
    /\ size \in {0, rsize}
    /\ interrupted = FALSE
    /\ pc = "dl_top"
    /\ op = "download"
    /\ nops = MaxOps
    /\ ret = 0
    /\ srvq = {}
    /\ nsent = 2
    /\ lastReq = [seq |-> 2, id |-> 2, type |-> "OPEN", offset |-> 0,
                  len |-> 0, handle |-> NoHandle]
    /\ faults = 0
    /\ hcount = 1
    /\ closes = [h \in 0..MaxOps |-> 0]
    /\ handle = 1 /\ status = 0 /\ offset = 0 /\ id = 2
    /\ pflag = FALSE
    /\ buflen = conn.transfer_buflen /\ num_req = 0 /\ max_req = 1
    /\ requests = <<>> /\ read_error = FALSE /\ write_error = FALSE
    /\ write_errno = 0 /\ lfile = {} /\ firstErrno = 0
    /\ fchmodFailed = FALSE
    /\ startid = 0 /\ ackid = 0 /\ acks = <<>> /\ len = 0 /\ uleft = 0
    /\ nwrites = 0 /\ badAck = FALSE
    /\ dir = <<>> /\ expected_id = 0 /\ nname = 0 /\ lastNames = <<>>
    /\ allNames = <<>>
    /\ args = [transfer_buflen |-> conn.transfer_buflen,
               num_requests |-> conn.num_requests]
    /\ intr_seen = FALSE
    /\ viol = "none"
    /\ version_pairs = <<>>

\* Lines 1012-1026 with the recycled id.
LiveDlSend ==
    /\ pc = "dl_send"
    /\ DlSendStep(NextLiveId, 0)

\* Lines 1028-1105: the reply to the request of id i, every write succeeding.
LiveDlRecv(i) ==
    /\ pc = "dl_recv"
    /\ \E r \in srvq : \E rep \in LiveReplies(r) :
        /\ r.id = i
        /\ DlRecvStep(r, rep, 0, NextLiveId, 0)

NextLive ==
    \/ DlTop
    \/ LiveDlSend
    \/ \E i \in 0..(MaxLiveIds - 1) : LiveDlRecv(i)
    \/ Interrupt
    \/ DlAfter
    \/ DlCloseReply
    \/ Return

\* The client is one thread that runs on whenever it is not waiting for a
\* reply (weak fairness of its own steps); the server answers every request
\* it received, sooner or later (strong fairness per request id: a request
\* can only be answered while the client is in get_msg).
SpecLive ==
    /\ LiveInit /\ [][NextLive]_vars
    /\ WF_vars(DlTop) /\ WF_vars(LiveDlSend) /\ WF_vars(DlAfter)
    /\ \A i \in 0..(MaxLiveIds - 1) : SF_vars(LiveDlRecv(i))

\* ================================================================ claims
InDlLoop == pc \in {"dl_top", "dl_send", "dl_recv"}
InUlLoop == pc \in {"ul_loop", "ul_recv"}

\* C1: during do_download the number of READ requests sent and not yet
\* answered (num_req, the length of the queue) is at most conn.num_requests,
\* and the window max_req never grows past conn.num_requests.
C1_DownloadWindowBound ==
    InDlLoop => /\ num_req <= conn.num_requests
                /\ Len(requests) <= conn.num_requests
                /\ max_req <= conn.num_requests

\* C2: during do_upload the number of WRITE requests sent and not yet
\* acknowledged (the length of the ack queue) is at most conn.num_requests.
C2_UploadWindowBound ==
    InUlLoop => Len(acks) <= conn.num_requests

\* C3: on a connection whose msg_id starts at 1, the n-th id-carrying
\* request written to the outbound stream carries id n.
C3_NthRequestHasIdN ==
    nsent > 0 => lastReq.id = lastReq.seq

\* C4: do_upload returns OK only if every STATUS received for its WRITEs was
\* SSH2_FX_OK: once an acknowledgement carried another status, the return
\* value is a failure.
C4_UploadFailsAfterBadAck ==
    (pc = "ret" /\ op = "upload" /\ badAck) => ret # SSH2_FX_OK

\* C5: when the loop of an uninterrupted do_download ends, against a server
\* that answers every READ inside the file with a non-empty correct prefix
\* and every READ at or past the end with EOF, every byte of the local file
\* equals the byte of the remote file at the same position, and nothing is
\* written past the end.
C5_ShortReadsByteExact ==
    (pc = "dl_after" /\ faults = 0 /\ ~interrupted) =>
        /\ \A p \in 0..(rsize - 1) : LocalByte(p) = RemoteByte(p)
        /\ \A e \in lfile : e.off + e.len <= rsize

\* C5 witness: a download of the 700-byte file with 1024-byte requests has
\* ended after a short reply shrank the request length, the file complete.
C5_Witness ==
    /\ pc = "dl_after" /\ faults = 0 /\ ~interrupted
    /\ rsize = 700 /\ conn.transfer_buflen = 1024 /\ buflen = 512
    /\ lfile = {Extent(0, 700, 0)}

\* C6: during do_download the request length buflen never increases from
\* one iteration to the next and is never below MIN_READ_SIZE.
C6_BuflenShrinksAboveMin ==
    [][InDlLoop' => /\ buflen' >= MIN_READ_SIZE
                    /\ (InDlLoop => buflen' <= buflen)]_vars

\* C7: if the interrupt flag was set between the start and the return of
\* do_readdir, the list handed back is empty.
C7_NoPartialReaddir ==
    (pc = "ret" /\ op = "readdir" /\ interrupted) => dir = <<>>

\* C8: if a local seek/write or the fchmod of a do_download failed, the
\* download returns a nonzero value and the errno kept is that of the first
\* failing write.
C8_LocalFailureFails ==
    (pc = "ret" /\ op = "download" /\ (firstErrno # 0 \/ fchmodFailed)) =>
        /\ ret # 0
        /\ (firstErrno # 0 => write_errno = firstErrno)

\* C9: every handle obtained by an OPENDIR or OPEN has exactly one CLOSE
\* request sent for it by the time the operation returns, never more than
\* one before, and no CLOSE is sent without a handle.
C9_HandleClosedOnce ==
    /\ \A h \in 0..MaxOps : closes[h] <= 1
    /\ closes[NoHandle] = 0
    /\ \A h \in 1..MaxOps : h > hcount => closes[h] = 0
    /\ (pc \in {"ret", "idle"} => \A h \in 1..hcount : closes[h] = 1)

\* C9 witness: a download that hit a local write error has returned and the
\* handle it opened has its one CLOSE.
C9_Witness ==
    /\ pc = "ret" /\ op = "download" /\ write_error
    /\ handle # NoHandle /\ closes[handle] = 1

\* C10: when the transfer loop of do_upload exits, the ack queue is empty
\* and ackid is the id of the last WRITE plus one, that is startid plus the
\* number of WRITEs sent.
C10_UploadAcksComplete ==
    pc = "ul_after" => /\ acks = <<>>
                       /\ ackid = startid + nwrites
                       /\ ackid = id + 1

\* C10 witness: the loop exits after four WRITEs under a window of two.
C10_Witness ==
    /\ pc = "ul_after" /\ nwrites = 4 /\ conn.num_requests = 2
    /\ ackid = startid + 4

\* C11: in every state of the loop of do_download num_req is the number of
\* queued requests, and when the loop has ended the queue is empty, so the
\* "requests still in queue" check cannot fail.
C11_QueueEmptyAtLoopEnd ==
    (InDlLoop \/ pc = "dl_after") =>
        /\ num_req = Len(requests)
        /\ (pc = "dl_after" => requests = <<>>)

\* C11 witness: the loop has ended after an interrupt, with data received
\* and nothing left in the queue.
C11_Witness ==
    /\ pc = "dl_after" /\ interrupted /\ requests = <<>> /\ lfile # {}

\* C12 (as stated): during do_upload the u_int difference id - ackid is at
\* most conn.num_requests, also when every WRITE has been acknowledged.
C12_U32DiffAtMostWindow ==
    (InUlLoop \/ pc = "ul_after") =>
        U32Le(U32Sub(id, ackid), U32(conn.num_requests))

\* C12 (amended): during do_upload the u_int difference id - ackid is one
\* less than the number of unacknowledged WRITEs: at most conn.num_requests
\* while a WRITE is unacknowledged, and 2^32 - 1 when none is.
C12_U32DiffOrWrap ==
    (InUlLoop \/ pc = "ul_after") =>
        LET d == U32Sub(id, ackid) IN
        IF acks = <<>>
        THEN d = [hi |-> Limb - 1, lo |-> Limb - 1]
        ELSE /\ d = U32(Len(acks) - 1)
             /\ U32Le(d, U32(conn.num_requests))

\* C12 witness: inside the loop every WRITE sent so far is acknowledged,
\* more of the file is left, and the difference has wrapped.
C12_Witness ==
    /\ pc = "ul_loop" /\ nwrites > 0 /\ acks = <<>> /\ uleft > 0
    /\ U32Sub(id, ackid).hi = Limb - 1

\* C17: once an acknowledgement of do_upload has carried a status other than
\* OK, no further WRITE is sent in the rest of the transfer.
C17_NoWriteAfterBadAck ==
    [][(InUlLoop /\ badAck) => nwrites' = nwrites]_vars

\* C19: in do_upload the FSETSTAT (only with the preserve flag) and the one
\* CLOSE are sent when every WRITE has been acknowledged, the FSETSTAT comes
\* before the CLOSE, and nothing is sent after the CLOSE.
C19_FsetstatCloseAfterDrain ==
    [][(op = "upload" /\ nsent' > nsent) =>
        /\ lastReq.type # "CLOSE"
        /\ (lastReq.type = "FSETSTAT" => lastReq'.type = "CLOSE")
        /\ (lastReq'.type \in {"FSETSTAT", "CLOSE"} =>
               /\ acks = <<>>
               /\ ~\E r \in srvq : r.type = "WRITE"
               /\ closes[handle] = 0)
        /\ (lastReq'.type = "FSETSTAT" => pflag')
        /\ (lastReq'.type = "CLOSE" /\ pflag' => lastReq.type = "FSETSTAT")
      ]_vars

\* C19 witness: an upload of several WRITEs with the preserve flag has sent
\* its FSETSTAT and then its CLOSE.
C19_Witness ==
    /\ pc = "ul_close_wait" /\ pflag /\ nwrites >= 2
    /\ lastReq.type = "CLOSE" /\ closes[handle] = 1

\* C13: no entry of the list of do_readdir has a filename containing '/',
\* and the entries a NAME reply adds to the list are exactly its entries
\* without '/', in order: one suspect entry does not drop the others.
C13_NoSlashInNames ==
    [][/\ \A k \in 1..Len(dir') : ~HasSlash(dir'[k])
       /\ (pc = "rd_wait" /\ pc' = "rd_loop" =>
              dir' = dir \o SelectSeq(lastNames', LAMBDA f : ~HasSlash(f)))
      ]_vars

\* C13 witness: the reply decoded last began with a suspect entry, and the
\* entry after it is the one entry of the list.
C13_Witness ==
    /\ pc = "rd_loop" /\ Len(lastNames) = 2 /\ HasSlash(lastNames[1])
    /\ ~HasSlash(lastNames[2]) /\ dir = <<lastNames[2]>>

\* C18 (as stated): once the poll at the top of the loop of do_download has
\* found the interrupt flag set, no further READ is sent.
C18_NoReadAfterInterruptSeen ==
    [][(InDlLoop /\ intr_seen) => nsent' = nsent]_vars

\* C18 (amended): once the poll has found the flag set, no READ for a new
\* range is sent: the queue does not grow and offset does not advance; the
\* only READ still sent asks for the part of an outstanding request that
\* its short DATA reply left out, in place of that request.
C18_OnlyTailReadsAfterInterruptSeen ==
    [][(InDlLoop /\ intr_seen) =>
        /\ pc' # "dl_send"
        /\ offset' = offset
        /\ Len(requests') <= Len(requests)
        /\ (nsent' > nsent =>
               /\ pc = "dl_recv"
               /\ lastReq'.type = "READ"
               /\ Len(requests') = Len(requests)
               /\ \E k \in 1..Len(requests) :
                     /\ requests'[k].id = lastReq'.id
                     /\ requests'[k].offset + requests'[k].len
                            = requests[k].offset + requests[k].len
                     /\ requests'[k].offset >= requests[k].offset)
      ]_vars

\* C18 witness: after the poll found the flag set the loop has ended with
\* the outstanding replies received and data written.
C18_Witness ==
    /\ pc = "dl_after" /\ intr_seen /\ lfile # {} /\ requests = <<>>

\* C20: in do_download and do_upload a reply that is a protocol violation,
\* and no other reply, is fatal; the step that receives it leaves the local
\* file and the queues as they were and sends nothing, and nothing is sent
\* once the engine is in the fatal state.
C20_ViolationIsFatal ==
    [][/\ (pc \in {"dl_recv", "ul_recv"} /\ pc' # pc =>
              /\ (viol' # "none" <=> pc' = "fatal")
              /\ (viol' # "none" =>
                     /\ lfile' = lfile
                     /\ requests' = requests
                     /\ acks' = acks
                     /\ nsent' = nsent))
       /\ (pc = "fatal" => pc' = "fatal" /\ nsent' = nsent)
      ]_vars

\* C20 witness: a download that had written data is in the fatal state after
\* a DATA reply longer than the request it answers.
C20_Witness ==
    /\ pc = "fatal" /\ viol = "too_long" /\ op = "download"

\* C14: do_statvfs on a connection whose exts lacks the STATVFS bit returns
\* -1 at once: nothing is sent, no reply is received, and the connection,
\* msg_id included, is unchanged.
C14_StatvfsGated ==
    [][(pc = "idle" /\ op' = "statvfs"
        /\ ~HasBit(conn.exts, SFTP_EXT_STATVFS)) =>
           /\ pc' = "ret" /\ ret' = -1
           /\ nsent' = nsent /\ lastReq' = lastReq /\ srvq' = srvq
           /\ conn' = conn
      ]_vars

\* C14 witness: do_statvfs has returned -1 with nothing sent, on a
\* connection that negotiated another extension but not statvfs.
C14_Witness ==
    /\ pc = "ret" /\ op = "statvfs" /\ ret = -1 /\ nsent = 0
    /\ conn.exts # 0 /\ ~HasBit(conn.exts, SFTP_EXT_STATVFS)
    /\ conn.msg_id = 1

\* C15: do_lstat sends exactly one request and advances msg_id by one; the
\* request is a STAT_VERSION_0 on a version-0 connection and an LSTAT on
\* every other.
C15_LstatFallsBackOnV0 ==
    [][/\ (pc = "idle" /\ op' = "lstat" =>
              /\ nsent' = nsent + 1
              /\ conn'.msg_id = conn.msg_id + 1
              /\ lastReq'.id = conn.msg_id
              /\ lastReq'.type = IF conn.version = 0 THEN "STAT_VERSION_0"
                                 ELSE "LSTAT")
       /\ (op = "lstat" => nsent' = nsent /\ conn' = conn)
      ]_vars

\* C15 witness: do_lstat has returned on a version-0 connection, its one
\* request a STAT_VERSION_0.
C15_Witness ==
    /\ pc = "ret" /\ op = "lstat" /\ conn.version = 0 /\ nsent = 1
    /\ lastReq.type = "STAT_VERSION_0" /\ conn.msg_id = 2

\* C16: on the connection do_init returns, transfer_buflen is the smaller of
\* the requested value and 20480 when the server advertised version 0 and
\* the requested value otherwise; the READs and WRITEs of a version-0
\* connection carry at most 20480 bytes.
C16_V0BuflenClamped ==
    pc \notin {"init_wait", "noconn"} =>
        /\ conn.transfer_buflen =
              (IF conn.version = 0
               THEN Min(args.transfer_buflen, V0_MAX_BUFLEN)
               ELSE args.transfer_buflen)
        /\ (conn.version = 0 /\ lastReq.type \in {"READ", "WRITE"} =>
               lastReq.len <= V0_MAX_BUFLEN)

\* C16 witness: on a version-0 connection asked for with 32768, an upload
\* of a larger file has sent a WRITE of 20480 bytes.
C16_Witness ==
    /\ conn.version = 0 /\ args.transfer_buflen = 32768
    /\ lastReq.type = "WRITE" /\ lastReq.len = V0_MAX_BUFLEN

\* C21: a reply with another id, a reply of the wrong type and a failed
\* receive are not fatal to the operations that wait with get_status and to
\* do_realpath: the operation returns 255 (NULL, here -1, for do_realpath),
\* the connection is as it was with msg_id one past the request's id, and
\* the engine goes on; a reply with another id is fatal where the reply is
\* awaited by do_stat, do_lstat, do_statvfs, the open of a transfer or of a
\* directory, and the READDIR loop.
C21_BadReplyFatalOnlyWhereDecoded ==
    [][/\ (pc = "st_wait" /\ pc' # pc /\ viol' # "none" =>
              /\ pc' = "ret" /\ ret' = STATUS_NO_REPLY
              /\ conn' = conn /\ conn.msg_id = id + 1)
       /\ (pc = "rp_wait" /\ pc' # pc /\ viol' # "none" =>
              /\ pc' = "ret" /\ ret' = -1
              /\ conn' = conn /\ conn.msg_id = id + 1)
       /\ (pc \in {"dl_close_wait", "ul_close_wait", "rd_close_wait",
                   "rd_errclose_wait"} /\ pc' # pc /\ viol' # "none" =>
              /\ pc' = "ret" /\ conn' = conn
              /\ (pc = "dl_close_wait" /\ ~read_error /\ ~write_error =>
                     ret' = STATUS_NO_REPLY))
       /\ (pc = "ul_fsetstat_wait" /\ pc' # pc /\ viol' # "none" =>
              pc' = "ul_close_wait")
       /\ (pc \in {"dl_stat_wait", "dl_open_wait", "ul_open_wait",
                   "rd_open_wait", "rd_wait", "ls_wait", "sv_wait"}
           /\ pc' # pc /\ viol' = "unknown_id" => pc' = "fatal")
      ]_vars

\* C21 witness: a rename has returned 255 after a reply with another id.
C21_Witness ==
    /\ pc = "ret" /\ op = "rename" /\ viol = "unknown_id"
    /\ ret = STATUS_NO_REPLY /\ conn.msg_id = id + 1

\* C22: when do_init returns a connection, each of the three extension bits
\* is set exactly when some pair of the VERSION reply has the extension's
\* name and the value the extension requires; a VERSION reply is never
\* refused, whatever pairs it carries.
Advertised(n, v) ==
    \E i \in 1..Len(version_pairs) :
        version_pairs[i].name = n /\ version_pairs[i].value = v

C24_ConnFieldsFrozen ==
    [][/\ (pc # "init_wait" =>
              /\ conn'.version = conn.version
              /\ conn'.exts = conn.exts
              /\ conn'.transfer_buflen = conn.transfer_buflen
              /\ conn'.num_requests = conn.num_requests
              /\ conn'.msg_id >= conn.msg_id)
       /\ (InDlLoop' /\ ~InDlLoop => buflen' = conn'.transfer_buflen)
      ]_vars

\* C24 witness: a download has returned with its read length shrunk to the
\* 700 bytes of a short reply, on a connection whose transfer_buflen is
\* still the 16384 passed to do_init.
C24_Witness ==
    /\ pc = "ret" /\ op = "download" /\ buflen = 700
    /\ conn.transfer_buflen = 16384 /\ args.transfer_buflen = 16384

\* C25: in do_download the ranges of the queued requests are pairwise
\* disjoint and end at or below offset, and the range a DATA reply is written
\* to holds no byte an earlier DATA reply of the download wrote: no byte is
\* written twice, whatever was re-requested and however the read length
\* shrank.
Disjoint(o1, l1, o2, l2) == o1 + l1 <= o2 \/ o2 + l2 <= o1

QueuedRangesDisjoint ==
    /\ \A i \in 1..Len(requests) :
          requests[i].offset + requests[i].len <= offset
    /\ \A i, j \in 1..Len(requests) :
          i # j => Disjoint(requests[i].offset, requests[i].len,
                            requests[j].offset, requests[j].len)

C25_NoByteFetchedTwice ==
    [][/\ (InDlLoop' => QueuedRangesDisjoint')
       /\ (pc = "dl_recv" /\ lfile' # lfile =>
              LET i == CHOOSE k \in 1..Len(requests) :
                           k > Len(requests') \/ requests'[k] # requests[k]
                  n == IF Len(requests') < Len(requests)
                       THEN requests[i].len
                       ELSE requests[i].len - requests'[i].len
              IN /\ n > 0
                 /\ lfile' = WriteAt(lfile, Extent(requests[i].offset, n,
                                                   requests[i].offset))
                 /\ \A e \in lfile :
                       Disjoint(e.off, e.len, requests[i].offset, n))
      ]_vars

\* C25 witness: after a short reply and the reply to the re-request, the
\* local file holds the 700 bytes of the remote file, written in two parts.
C25_Witness ==
    /\ pc = "dl_top" /\ rsize = 700 /\ buflen = 512 /\ requests = <<>>
    /\ lfile = {Extent(0, 700, 0)} /\ conn.transfer_buflen = 1024

\* C26: no two requests that carry the same id are unanswered at the same
\* time, although the ids of the WRITE requests of do_upload are counted in
\* a local that is never stored back into conn.msg_id; when no reply was
\* faulty and no local call failed, an operation returns with no request
\* unanswered.
C26_NoTwoUnansweredSameId ==
    /\ \A r1, r2 \in srvq : r1.id = r2.id => r1 = r2
    /\ (faults = 0 /\ pc = "ret" => srvq = {})

\* C26 witness: an upload has two WRITE requests unanswered, with ids at and
\* above conn.msg_id.
C26_Witness ==
    /\ InUlLoop /\ faults = 0 /\ Cardinality(srvq) = 2
    /\ \A r \in srvq : r.type = "WRITE" /\ r.id >= conn.msg_id

\* C27: in do_upload the first WRITE is at offset 0 and every later WRITE is
\* at the offset of the WRITE before it plus that WRITE's length, so the
\* k-th WRITE is at the sum of the lengths of the k-1 before it and the
\* ranges written tile the file from 0 with no gap and no overlap; an upload
\* that ends its loop with status OK and no interrupt has sent the whole
\* file, and offset is the end of the last range.
C27_UploadRangesTile ==
    [][/\ (nsent' # nsent /\ lastReq'.type = "WRITE" =>
              /\ lastReq'.len > 0
              /\ lastReq'.offset = IF lastReq.type = "WRITE"
                                   THEN lastReq.offset + lastReq.len
                                   ELSE 0
              /\ lastReq.type \in {"WRITE", "OPEN"}
              /\ acks' = Append(acks, [id |-> lastReq'.id,
                                       offset |-> lastReq'.offset,
                                       len |-> lastReq'.len]))
       /\ (pc = "ul_after" /\ status = SSH2_FX_OK /\ ~interrupted
           /\ lastReq.type = "WRITE" =>
              uleft = 0 /\ offset = lastReq.offset + lastReq.len)
      ]_vars

\* C27 witness: the third WRITE of an upload of 700 bytes in blocks of 256
\* is the 188 bytes at offset 512.
C27_Witness ==
    /\ InUlLoop /\ nwrites = 3 /\ uleft = 0
    /\ lastReq.type = "WRITE" /\ lastReq.offset = 512 /\ lastReq.len = 188

\* C28: a do_download in which a READ was answered by a STATUS of a code
\* other than EOF (read_error is set) returns a nonzero value, whatever
\* STATUS replies arrived after it.
C28_ReadErrorFails ==
    (pc = "ret" /\ op = "download" /\ read_error) => ret # 0

\* C29: when every READ is answered, by a STATUS or by a DATA of a length
\* from 0 to the length asked for, the loop of do_download ends with no
\* request outstanding once a STATUS was received or the interrupt flag is
\* set (unless the process has died in fatal()).
C29_DownloadLoopTerminates ==
    (InDlLoop /\ (status # 0 \/ read_error \/ interrupted))
        ~> ((pc = "dl_after" /\ requests = <<>>) \/ pc = "fatal")

====
